---- MODULE Spec2Model ----
(***************************************************************************)
(* Model of `uv tool install` (crates/uv/src/commands/tool/install.rs).   *)
(*                                                                         *)
(* The disk state is the receipt store, the per-tool environments and the  *)
(* shared executable directory.  One install call is a sequence of steps   *)
(* (one per state-changing call of the function), so that collaborator     *)
(* failures and interruption can happen between any two of them.           *)
(***************************************************************************)
EXTENDS Integers, Sequences, FiniteSets, TLC

\* ------------------------------------------------------------------ bounds
\* Largest number of entry points the installed package exposes; also the
\* number of file names used in the executable directory.
MaxEntryPoints == 2

\* ------------------------------------------------------------- input sets
None == "none"
Procs == {1, 2}
Tools == {"black", "ruff"}
\* Positional argument: a bare package name or something that is no name.
Packages == {"black", "bl@ck"}
\* `--from`; "ruff" names another package than the positional name.
Froms == {None, "black", "ruff"}
\* `--python`
Pythons == {None, "3.11"}
DefaultInterpreter == "3.12"
Interpreters == {"3.11", "3.12"}
\* The `--with` vectors: none, and the same two in either order.
Withs == {<<>>, <<"p", "q">>, <<"q", "p">>}
\* `settings.reinstall` / `settings.upgrade` (Option: TRUE is Some).
Settings ==
    {[reinstall |-> FALSE, upgrade |-> FALSE],
     [reinstall |-> TRUE, upgrade |-> FALSE],
     [reinstall |-> FALSE, upgrade |-> TRUE]}
\* `--force` with the settings: at most one of the three is given.
Flags ==
    {fl \in BOOLEAN \X Settings : fl[1] => (~fl[2].reinstall /\ ~fl[2].upgrade)}
Platforms == {"unix", "windows"}
\* File names of the executable directory.
FileNames == 1..MaxEntryPoints
\* Last component of a path that has no file name (`..`).
DotDot == 0

\* ---------------------------------------------------------------- state
VARIABLES
    receipts,   \* receipt store: tool name -> Missing or Tool
    envs,       \* tool name -> Missing or the tool's environment
    bin,        \* executable directory: file name -> content
    exeDir,     \* the executable directory exists
    platform,   \* the build: cfg(unix) or cfg(windows)
    calls       \* per process: the install call it runs (locals and position)

vars == <<receipts, envs, bin, exeDir, platform, calls>>
disk == <<receipts, envs, bin, exeDir>>

\* An Option that is None, for the receipt and the environment of a tool.
Missing == [kind |-> "missing"]
\* Contents of a file name of the executable directory: no file, a file that
\* no install put there, or (below) a link to or a copy of a source path.
Absent == [kind |-> "absent"]
Foreign == [kind |-> "foreign"]

\* ------------------------------------------------------- pure operators
\* PackageName::from_str: only a bare name parses.
PackageNameFromStr(s) == IF s \in Tools THEN s ELSE None

\* resolve_requirements on one specification: the requirement it names.
NamedRequirement(s) == [name |-> s, source |-> [kind |-> "Registry", specifier |-> None]]

\* pep508_rs::Requirement::from(pypi_types::Requirement)
ToPep508(r) == [name |-> r.name, version_or_url |-> r.source.specifier]
\* pypi_types::Requirement::from(pep508_rs::Requirement)
FromPep508(r) ==
    [name |-> r.name, source |-> [kind |-> "Registry", specifier |-> r.version_or_url]]

MapSeq(f(_), s) == [i \in 1..Len(s) |-> f(s[i])]

\* PythonInstallation::find_or_fetch(..).into_interpreter()
FindInterpreter(python) == IF python = None THEN DefaultInterpreter ELSE python
\* PythonRequest::satisfied
Satisfied(python, interpreter) == python = interpreter

\* Path::file_name: the last component, unless the path ends in `..`.
FileNameOf(path) ==
    IF path = <<>> \/ path[Len(path)] = DotDot THEN <<>> ELSE <<path[Len(path)]>>

\* The target of one discovered entry point <<name, source_path>>.
TargetPath(ep) ==
    IF FileNameOf(ep[2]) = <<>> THEN ep[1] ELSE FileNameOf(ep[2])[1]
TargetEntryPoint(ep) == <<ep[1], ep[2], TargetPath(ep)>>

\* Ord of PathBuf: component by component, a proper prefix first.
RECURSIVE PathLess(_, _)
PathLess(a, b) ==
    IF a = <<>> THEN b # <<>>
    ELSE IF b = <<>> THEN FALSE
    ELSE IF Head(a) = Head(b) THEN PathLess(Tail(a), Tail(b))
    ELSE Head(a) < Head(b)

\* Ord of (String, PathBuf, PathBuf)
TripleLess(a, b) ==
    IF a[1] # b[1] THEN a[1] < b[1]
    ELSE IF a[2] # b[2] THEN PathLess(a[2], b[2])
    ELSE a[3] < b[3]

\* What entrypoint_paths can return for an environment that holds the scripts
\* S: each of them, in any order, the first possibly once more at the end.
Discoveries(S) ==
    LET orders == {s \in [1..Cardinality(S) -> S] : {s[k] : k \in 1..Len(s)} = S}
    IN orders \cup {s \o <<s[1]>> : s \in orders \ {<<>>}}

\* Iteration order of a BTreeSet of triples.
RECURSIVE BTreeSetSeq(_)
BTreeSetSeq(S) ==
    IF S = {} THEN <<>>
    ELSE LET m == CHOOSE x \in S : \A y \in S \ {x} : TripleLess(x, y)
         IN <<m>> \o BTreeSetSeq(S \ {m})

\* The i-th console script <<name, source_path>> of a tool.  Those of black
\* are files of the environment's bin directory, named as the script.  The
\* first of ruff is a path without a file name; the others are files named
\* otherwise than the script.
ScriptOf(tool, i) ==
    IF tool = "black" THEN <<i, <<tool, "bin", i>>>>
    ELSE IF i = 1 THEN <<MaxEntryPoints, <<tool, "bin", DotDot>>>>
    ELSE <<i - 1, <<tool, "bin", MaxEntryPoints + 2 - i>>>>

\* What the environment of a tool can hold: the first k of its scripts.
EntryPointsOf(tool, k) == {ScriptOf(tool, i) : i \in 1..k}
EntryPointOptions(tool) == {EntryPointsOf(tool, k) : k \in 0..MaxEntryPoints}

\* (the targets in the order of discovery, neither sorted nor deduplicated)
TargetEntryPointsInDiscoveryOrder(entry_points) ==
    [k \in 1..Len(entry_points) |-> TargetEntryPoint(entry_points[k])]

\* Lines 284-295: the targets of the discovered entry points, collected into
\* a BTreeSet.
TargetEntryPoints(entry_points) ==
    BTreeSetSeq({TargetEntryPoint(entry_points[k]) : k \in 1..Len(entry_points)})

\* The environment right after create_environment: nothing installed.
FreshEnvironment(interpreter) ==
    [interpreter |-> interpreter, installed |-> FALSE, entrypoints |-> {}]

\* A path inside a tool environment exists.
SourceExists(E, path) ==
    /\ E[path[1]] # Missing
    /\ \E ep \in E[path[1]].entrypoints : ep[2] = path

\* Path::exists on a file of the executable directory: follows links.
Exists(B, E, f) ==
    \/ B[f].kind \in {"foreign", "copy"}
    \/ B[f].kind = "link" /\ SourceExists(E, B[f].source)

\* ----------------------------------------------------------------- Init
\* A process that runs no call.
IdleCall == [pc |-> "idle"]

\* The locals of a call before its first line, and what is recorded of the
\* call: the steps it ran, and the disk as it found it.
EntryCall ==
    [pc |-> "entry", python |-> None,
     with |-> <<>>, force |-> FALSE,
     settings |-> [reinstall |-> FALSE, upgrade |-> FALSE],
     name |-> None, requirements |-> <<>>, interpreter |-> None,
     existing_environment |-> FALSE, reinstall_entry_points |-> FALSE,
     target_entry_points |-> <<>>, i |-> 0, outcome |-> None,
     discovered |-> {}, existing |-> {}, conflicts |-> <<>>, reported |-> <<>>,
     steps |-> {}, retry |-> FALSE,
     bin00 |-> [f \in FileNames |-> Absent],
     receipts0 |-> [t \in Tools |-> Missing], envs0 |-> [t \in Tools |-> Missing],
     bin0 |-> [f \in FileNames |-> Absent], exeDir0 |-> FALSE]

Init ==
    /\ receipts = [t \in Tools |-> Missing]
    /\ envs = [t \in Tools |-> Missing]
    /\ exeDir \in BOOLEAN
    /\ bin \in [FileNames -> {Absent, Foreign}]
    /\ exeDir = FALSE => bin = [f \in FileNames |-> Absent]
    /\ platform \in Platforms
    /\ calls = [p \in Procs |-> IdleCall]

\* ------------------------------------------------------------- actions
Finish(c, outcome) == [c EXCEPT !.pc = "done", !.outcome = outcome]

\* The call record at entry: the arguments, and the disk as the call found it
\* (bin00: the executable directory as the first attempt of the call found it).
NewCall(python, with, force, settings, retry, bin00) ==
    [EntryCall EXCEPT !.python = python, !.bin00 = bin00,
                     !.with = with, !.force = force, !.settings = settings,
                     !.retry = retry,
                     !.receipts0 = receipts, !.envs0 = envs, !.bin0 = bin,
                     !.exeDir0 = exeDir]

\* Lines 157-175: the tool's environment, unless it does not satisfy the
\* requested interpreter (TRUE: there is one the call can use).
ExistingEnvironmentNoRequest(E, name, python) ==
    /\ E[name] # Missing
    /\ python # None /\ Satisfied(python, E[name].interpreter)
ExistingEnvironmentWhateverRequest(E, name, python) == E[name] # Missing
ExistingEnvironment(E, name, python) ==
    /\ E[name] # Missing
    /\ (python = None \/ Satisfied(python, E[name].interpreter))

\* Lines 180-186: the requested requirements are those of the receipt.
SameRequirementsAsSets(requirements, tool_receipt) ==
    {requirements[k] : k \in 1..Len(requirements)} =
        {FromPep508(tool_receipt.requirements[k]) :
            k \in 1..Len(tool_receipt.requirements)}
SameRequirements(requirements, tool_receipt) ==
    requirements = MapSeq(FromPep508, tool_receipt.requirements)

\* Lines 155-200, once the requirements are resolved: look up the receipt
\* and the environment, and return early when the requested and the receipt
\* requirements agree and nothing asks for a reinstall.
Lookup(c, from_requirement, requirements) ==
    LET name == from_requirement.name
        existing_tool_receipt == receipts[name]
        existing_environment == ExistingEnvironment(envs, name, c.python)
        d == [c EXCEPT !.name = name, !.requirements = requirements,
                       !.existing_environment = existing_environment,
                       !.reinstall_entry_points = existing_tool_receipt # Missing]
    IN IF /\ existing_environment
          /\ existing_tool_receipt # Missing
          /\ SameRequirements(requirements, existing_tool_receipt)
          /\ ~c.force /\ ~c.settings.reinstall /\ ~c.settings.upgrade
       THEN Finish(d, "AlreadyInstalled")
       ELSE [d EXCEPT !.pc = "build"]

\* A call that ends before it has read `with` (line 138), `force` and
\* `settings` (line 188): what it has not read is not part of its state.
BeforeWith(c) ==
    [c EXCEPT !.with = EntryCall.with, !.force = EntryCall.force,
              !.settings = EntryCall.settings]
BeforeForce(c) == [c EXCEPT !.force = EntryCall.force, !.settings = EntryCall.settings]

\* Lines 51-200: everything install does before it touches the disk.  `fail`
\* is the collaborator that fails in this call, if any.  `package` and `from`
\* are consumed here and not used after.
Prepare(c, package, from, fail) ==
    LET d == [c EXCEPT !.interpreter = FindInterpreter(c.python)]
        with_requirements == MapSeq(NamedRequirement, c.with)
    IN IF fail = "interpreter" THEN Finish(BeforeWith(c), "InterpreterError")
       ELSE IF from # None
       THEN IF PackageNameFromStr(package) = None
            THEN Finish(BeforeWith(d), "PackageParse")
            ELSE IF fail = "from" THEN Finish(BeforeWith(d), "ResolveFromError")
            ELSE IF NamedRequirement(from).name # PackageNameFromStr(package)
            THEN Finish(BeforeWith(d), "NameConflict")
            ELSE IF fail = "with" THEN Finish(BeforeForce(d), "ResolveWithError")
            ELSE Lookup(d, NamedRequirement(from),
                        <<NamedRequirement(from)>> \o with_requirements)
       ELSE IF fail = "from" \/ PackageNameFromStr(package) = None
            THEN Finish(BeforeWith(d), "ResolveFromError")
            ELSE IF fail = "with" THEN Finish(BeforeForce(d), "ResolveWithError")
            ELSE Lookup(d, NamedRequirement(package),
                        <<NamedRequirement(package)>> \o with_requirements)

\* The collaborator that fails before the disk is touched, if any.
PrepareFails == {"none", "interpreter", "from", "with"}

\* A process starts an install call with arguments of the given sets.
StartCall(p, packages, froms, pythons, withs, flags, fails) ==
    /\ calls[p].pc = "idle"
    /\ \E package \in packages, from \in froms, python \in pythons, with \in withs,
          fl \in flags, fail \in fails :
         calls' = [calls EXCEPT ![p] =
             Prepare(NewCall(python, with, fl[1], fl[2], FALSE, bin),
                     package, from, fail)]
    /\ UNCHANGED <<receipts, envs, bin, exeDir, platform>>

\* A process starts an install call, with any arguments.
Start(p) == StartCall(p, Packages, Froms, Pythons, Withs, Flags, PrepareFails)

\* A process starts `uv tool install <tool>` for one of the given tools, with
\* or without --force and nothing else.
StartTool(p, tools) ==
    StartCall(p, tools, {None}, {None}, {<<>>},
              {fl \in Flags : ~fl[2].reinstall /\ ~fl[2].upgrade}, {"none"})

\* The environment a call holds, as the installer finds it on disk: when
\* another call has removed it meanwhile, the installer writes it anew.
Held(E, c) == IF E[c.name] = Missing THEN FreshEnvironment(c.interpreter) ELSE E[c.name]

\* Lines 210-223: update the existing environment in place.
UpdateEnvironment(p) ==
    LET c == calls[p] IN
    /\ c.pc = "build" /\ c.existing_environment
    /\ \/ \E eps \in EntryPointOptions(c.name) :
            /\ envs' = [envs EXCEPT ![c.name] =
                   [Held(envs, c) EXCEPT !.installed = TRUE, !.entrypoints = eps]]
            /\ calls' = [calls EXCEPT ![p] =
                   [c EXCEPT !.pc = "discover", !.steps = @ \cup {"update"}]]
       \/ /\ envs' \in {envs, [envs EXCEPT ![c.name] =
                                   FreshEnvironment(Held(envs, c).interpreter)]}
          /\ calls' = [calls EXCEPT ![p] =
                 Finish([c EXCEPT !.steps = @ \cup {"update"}], "SyncError")]
    /\ UNCHANGED <<receipts, bin, exeDir, platform>>

\* (a resolution that fails only after the old environment was replaced)
ResolveAfterCreate(p) ==
    LET c == calls[p] IN
    /\ c.pc = "build" /\ ~c.existing_environment
    /\ \/ /\ envs' = envs
          /\ calls' = [calls EXCEPT ![p] =
                 [c EXCEPT !.pc = "create", !.steps = @ \cup {"resolve"}]]
       \/ /\ envs' = [envs EXCEPT ![c.name] = FreshEnvironment(c.interpreter)]
          /\ calls' = [calls EXCEPT ![p] =
                 Finish([c EXCEPT !.steps = @ \cup {"resolve"}], "ResolutionError")]
    /\ UNCHANGED <<receipts, bin, exeDir, platform>>

\* Lines 227-239: resolve the requirements before creating the environment.
ResolveEnvironment(p) ==
    LET c == calls[p] IN
    /\ c.pc = "build" /\ ~c.existing_environment
    /\ \/ calls' = [calls EXCEPT ![p] =
              [c EXCEPT !.pc = "create", !.steps = @ \cup {"resolve"}]]
       \/ calls' = [calls EXCEPT ![p] =
              Finish([c EXCEPT !.steps = @ \cup {"resolve"}], "ResolutionError")]
    /\ UNCHANGED <<receipts, envs, bin, exeDir, platform>>

\* Line 241: create_environment replaces whatever environment the tool had.
CreateEnvironment(p) ==
    LET c == calls[p] IN
    /\ c.pc = "create"
    /\ \/ /\ envs' = [envs EXCEPT ![c.name] = FreshEnvironment(c.interpreter)]
          /\ calls' = [calls EXCEPT ![p] =
                 [c EXCEPT !.pc = "sync", !.steps = @ \cup {"create"}]]
       \/ /\ envs' = [envs EXCEPT ![c.name] = Missing]
          /\ calls' = [calls EXCEPT ![p] =
                 Finish([c EXCEPT !.steps = @ \cup {"create"}], "CreateError")]
    /\ UNCHANGED <<receipts, bin, exeDir, platform>>

\* Lines 244-256: sync the new environment with the resolution.
SyncEnvironment(p) ==
    LET c == calls[p] IN
    /\ c.pc = "sync"
    /\ \/ \E eps \in EntryPointOptions(c.name) :
            /\ envs' = [envs EXCEPT ![c.name] =
                   [Held(envs, c) EXCEPT !.installed = TRUE, !.entrypoints = eps]]
            /\ calls' = [calls EXCEPT ![p] =
                   [c EXCEPT !.pc = "discover", !.steps = @ \cup {"sync"}]]
       \/ /\ envs' = envs
          /\ calls' = [calls EXCEPT ![p] =
                 Finish([c EXCEPT !.steps = @ \cup {"sync"}], "SyncError")]
    /\ UNCHANGED <<receipts, bin, exeDir, platform>>

\* InstalledTools::remove_environment: no-op when there is none.
RemoveEnvironment(E, name) == [E EXCEPT ![name] = Missing]

\* Lines 297-300: what is left of the environments when no entry point is
\* found.
CleanUpKeeps(E, name) == E
CleanUpNoEntryPoints(E, name) == RemoveEnvironment(E, name)

\* Line 268, fs_err::create_dir_all on the executable directory (TRUE: Ok):
\* succeeds when the directory exists already, whoever made it.
CreateDirExclusive(exists) == ~exists
CreateDirAll(exists) == TRUE

\* Lines 259-302: the primary package must be installed in the environment;
\* the executable directory is created (create_dir_all: no error when it
\* exists already); the entry points are discovered and their targets
\* computed and ordered; with none, the environment is removed and the call
\* fails.
DiscoverEntryPoints(p) ==
    LET c == calls[p] IN
    /\ c.pc = "discover"
    /\ IF envs[c.name] = Missing
       THEN /\ calls' = [calls EXCEPT ![p] = Finish(c, "EnvironmentError")]
            /\ UNCHANGED <<envs, exeDir>>
       ELSE IF ~envs[c.name].installed
       THEN /\ calls' = [calls EXCEPT ![p] = Finish(c, "ExpectedRequirement")]
            /\ UNCHANGED <<envs, exeDir>>
       ELSE \/ /\ ~exeDir
               /\ calls' = [calls EXCEPT ![p] = Finish(c, "CreateDirError")]
               /\ UNCHANGED <<envs, exeDir>>
            \/ /\ exeDir /\ ~CreateDirAll(exeDir)
               /\ calls' = [calls EXCEPT ![p] = Finish(c, "DirectoryExists")]
               /\ UNCHANGED <<envs, exeDir>>
            \/ /\ CreateDirAll(exeDir)
               /\ exeDir' = TRUE
               /\ \E entry_points \in Discoveries(envs[c.name].entrypoints) :
                    LET target_entry_points == TargetEntryPoints(entry_points)
                        d == [c EXCEPT !.steps = @ \cup {"discover"},
                                       !.discovered = envs[c.name].entrypoints,
                                       !.target_entry_points = target_entry_points]
                    IN IF target_entry_points = <<>>
                       THEN /\ envs' = CleanUpNoEntryPoints(envs, c.name)
                            /\ calls' = [calls EXCEPT ![p] =
                                   Finish([d EXCEPT !.steps =
                                               @ \cup {"remove_environment"}],
                                          "NoEntryPoints")]
                       ELSE /\ envs' = envs
                            /\ calls' = [calls EXCEPT ![p] =
                                   [d EXCEPT !.pc = "reconcile", !.i = 1,
                                             !.existing =
                                                 {target_entry_points[k][3] :
                                                     k \in {j \in 1..Len(target_entry_points) :
                                                         Exists(bin, envs,
                                                                target_entry_points[j][3])}}]]
    /\ UNCHANGED <<receipts, bin, platform>>

\* After the last element of a loop over the targets.
Advance(c, next) ==
    IF c.i < Len(c.target_entry_points)
    THEN [c EXCEPT !.i = @ + 1]
    ELSE [c EXCEPT !.pc = next, !.i = 1]

\* Line 312: existing targets are removed, not reported as a conflict.
OverwriteOnReinstall(c) == c.force \/ c.reinstall_entry_points \/ c.settings.reinstall
OverwriteWithoutForce(c) == c.reinstall_entry_points
OverwriteOnlyWithForce(c) == c.force
Overwrite(c) == c.force \/ c.reinstall_entry_points

\* The turns of the loop that are left: the targets from the k-th on that
\* the filter finds to exist.
Remaining(c, k, B, E) ==
    {j \in k..Len(c.target_entry_points) : Exists(B, E, c.target_entry_points[j][3])}

\* Line 315, fs_err::remove_file: the directory without that one file.
RemoveFileAndSiblings(B, target) == [f \in DOMAIN B |-> Absent]
RemoveFile(B, target) == [B EXCEPT ![target] = Absent]

\* Lines 312-316: with `force` or a prior receipt, one turn of the loop over
\* the (lazily filtered) existing targets: the next target that exists is
\* removed; the loop ends when no target from there on exists.
RemoveExisting(p) ==
    LET c == calls[p]
        rest == Remaining(c, c.i, bin, envs)
        k == CHOOSE j \in rest : \A m \in rest : j <= m
        removed == RemoveFile(bin, c.target_entry_points[k][3])
    IN
    /\ c.pc = "reconcile" /\ Overwrite(c)
    /\ IF rest = {}
       THEN /\ bin' = bin
            /\ calls' = [calls EXCEPT ![p] = [c EXCEPT !.pc = "publish", !.i = 1]]
       ELSE \/ /\ bin' = removed
               /\ calls' = [calls EXCEPT ![p] =
                      IF Remaining(c, k + 1, removed, envs) = {}
                      THEN [c EXCEPT !.pc = "publish", !.i = 1,
                                     !.steps = @ \cup {"remove_file"}]
                      ELSE [c EXCEPT !.i = k + 1, !.steps = @ \cup {"remove_file"}]]
            \/ /\ bin' = bin
               /\ calls' = [calls EXCEPT ![p] = Finish(c, "RemoveError")]
    /\ UNCHANGED <<receipts, envs, exeDir, platform>>

\* The names the lazy filter yields: `first` was found (peeked) on the disk
\* B, E; the targets after it are tested on the disk B, E2.
RECURSIVE ExistingFrom(_, _, _, _)
ExistingFrom(teps, k, B, E2) ==
    IF k > Len(teps) THEN <<>>
    ELSE (IF Exists(B, E2, teps[k][3]) THEN <<teps[k][3]>> ELSE <<>>)
         \o ExistingFrom(teps, k + 1, B, E2)

\* Lines 317-334: without `force` and without a prior receipt, any existing
\* target is a conflict: the environment is removed and the call fails.
CheckConflict(p) ==
    LET c == calls[p]
        teps == c.target_entry_points
        existing == {k \in 1..Len(teps) : Exists(bin, envs, teps[k][3])}
        first == CHOOSE k \in existing : \A j \in existing : k <= j
        removed == RemoveEnvironment(envs, c.name)
    IN
    /\ c.pc = "reconcile" /\ ~Overwrite(c)
    /\ IF existing = {}
       THEN /\ envs' = envs
            /\ calls' = [calls EXCEPT ![p] = [c EXCEPT !.pc = "publish", !.i = 1]]
       ELSE /\ envs' = removed
            /\ calls' = [calls EXCEPT ![p] =
                   Finish([c EXCEPT !.steps = @ \cup {"remove_environment"},
                                    !.conflicts = <<teps[first][3]>> \o
                                        ExistingFrom(teps, first + 1, bin, removed)],
                          "EntryPointConflict")]
    /\ UNCHANGED <<receipts, bin, exeDir, platform>>

\* What publishing leaves at the target: a link to the source (replace_symlink)
\* or a copy of it (fs_err::copy).
Installed(source_path) ==
    IF platform = "unix" THEN [kind |-> "link", source |-> source_path]
    ELSE [kind |-> "copy", source |-> source_path]

\* (a publish loop that goes on after a failure)
InstallEntryPointIgnoringErrors(p) ==
    LET c == calls[p]
        tep == c.target_entry_points[c.i]
    IN
    /\ c.pc = "publish"
    /\ \/ /\ exeDir
          /\ platform = "windows" => SourceExists(envs, tep[2])
          /\ bin' = [bin EXCEPT ![tep[3]] = Installed(tep[2])]
          /\ calls' = [calls EXCEPT ![p] =
                 Advance([c EXCEPT !.steps = @ \cup {"publish"}], "receipt")]
       \/ /\ bin' = bin
          /\ calls' = [calls EXCEPT ![p] = Advance(c, "receipt")]
    /\ UNCHANGED <<receipts, envs, exeDir, platform>>

\* Lines 336-342: one turn of the publish loop.
InstallEntryPoint(p) ==
    LET c == calls[p]
        tep == c.target_entry_points[c.i]
    IN
    /\ c.pc = "publish"
    /\ \/ /\ exeDir
          /\ platform = "windows" => SourceExists(envs, tep[2])
          /\ bin' = [bin EXCEPT ![tep[3]] = Installed(tep[2])]
          /\ calls' = [calls EXCEPT ![p] =
                 Advance([c EXCEPT !.steps = @ \cup {"publish"}], "receipt")]
       \/ /\ bin' = bin
          /\ calls' = [calls EXCEPT ![p] = Finish(c, "PublishError")]
    /\ UNCHANGED <<receipts, envs, exeDir, platform>>

\* Tool::new
NewTool(requirements, python, teps) ==
    [requirements |-> MapSeq(ToPep508, requirements),
     python |-> python,
     entrypoints |-> [k \in 1..Len(teps) |-> <<teps[k][1], teps[k][3]>>]]

\* Lines 344-351: the names of the "Installed:" line.
Reported(teps) == [k \in 1..Len(teps) |-> teps[k][1]]

\* Lines 344-367: report, write the receipt, succeed.
AddToolReceipt(p) ==
    LET c == calls[p] IN
    /\ c.pc = "receipt"
    /\ \/ /\ receipts' = [receipts EXCEPT ![c.name] =
                 NewTool(c.requirements, c.python, c.target_entry_points)]
          /\ calls' = [calls EXCEPT ![p] =
                 Finish([c EXCEPT !.steps = @ \cup {"receipt"},
                                  !.reported = Reported(c.target_entry_points)],
                        "Success")]
       \/ /\ receipts' = receipts
          /\ calls' = [calls EXCEPT ![p] =
                 Finish([c EXCEPT !.reported = Reported(c.target_entry_points)],
                        "ReceiptError")]
    /\ UNCHANGED <<envs, bin, exeDir, platform>>

\* The call has returned; the process is ready for the next call.
Return(p) ==
    /\ calls[p].pc = "done"
    /\ calls' = [calls EXCEPT ![p] = IdleCall]
    /\ UNCHANGED <<receipts, envs, bin, exeDir, platform>>

\* The process is interrupted between two steps of the call.
Interrupt(p) ==
    /\ calls[p].pc \notin {"idle", "done"}
    /\ calls' = [calls EXCEPT ![p] = Finish(@, "Interrupted")]
    /\ UNCHANGED <<receipts, envs, bin, exeDir, platform>>

\* The interrupted call is run again with the same arguments (the positional
\* name and `--from` resolve to the same primary requirement).
Retry(p) ==
    LET c == calls[p] IN
    /\ c.pc = "done" /\ c.outcome = "Interrupted"
    /\ \E package \in Packages, from \in Froms, fail \in PrepareFails :
         LET d == Prepare(NewCall(c.python, c.with, c.force, c.settings, TRUE, c.bin00),
                          package, from, fail)
         IN /\ d.requirements = c.requirements
            /\ calls' = [calls EXCEPT ![p] = d]
    /\ UNCHANGED <<receipts, envs, bin, exeDir, platform>>

\* ExitStatus of a finished call: Ok(Success), Ok(Failure) or Err.
ExitOf(outcome) ==
    IF outcome = "Success" THEN <<"Ok", "Success">>
    ELSE IF outcome = "AlreadyInstalled" THEN <<"Ok", "Failure">>
    ELSE <<"Err", outcome>>

\* ------------------------------------------------------- specifications
\* The steps of a call that found no environment it can use (lines 224-367).
StepCreate(p) ==
    \/ ResolveEnvironment(p)
    \/ CreateEnvironment(p)
    \/ SyncEnvironment(p)
    \/ DiscoverEntryPoints(p)
    \/ RemoveExisting(p)
    \/ CheckConflict(p)
    \/ InstallEntryPoint(p)
    \/ AddToolReceipt(p)

\* The steps of any call (lines 202-367).
Step(p) == UpdateEnvironment(p) \/ StepCreate(p)

\* Install calls one after the other, each run to its end.
Next == Start(1) \/ Step(1) \/ Return(1)

Spec == Init /\ [][Next]_vars

\* One install call on a machine where nothing is installed yet, interrupted
\* any number of times and each time run again.
NextRetry == Start(1) \/ Step(1) \/ Interrupt(1) \/ Retry(1)

SpecRetry == Init /\ [][NextRetry]_vars

\* Two install calls of any of the tools on a machine where nothing is
\* installed yet, the second after the first has returned.
NextTwoCalls ==
    \/ StartTool(1, Tools)
    \/ calls[1].pc = "done" /\ StartTool(2, Tools)
    \/ \E p \in Procs : Step(p)

SpecTwoCalls == Init /\ [][NextTwoCalls]_vars

\* Two processes, each running one install call, their steps interleaved in
\* every way (the function takes no lock): calls for different tools, on a
\* machine where neither has an environment,
NextDifferent ==
    \/ StartTool(1, {"black"})
    \/ StartTool(2, {"ruff"})
    \/ \E p \in Procs : StepCreate(p)

SpecDifferent == Init /\ [][NextDifferent]_vars

\* and calls for the same tool.
NextSame == \E p \in Procs : StartTool(p, {"black"}) \/ Step(p)

SpecSame == Init /\ [][NextSame]_vars

\* ------------------------------------------------------------ properties
Done(p) == calls[p].pc = "done"
\* The call resolved its requirements and looked up the tool.
Resolved(c) == c.name # None
NoFlags(c) == ~c.force /\ ~c.settings.reinstall /\ ~c.settings.upgrade
DiskUnchanged(c) ==
    /\ receipts = c.receipts0 /\ envs = c.envs0
    /\ bin = c.bin0 /\ exeDir = c.exeDir0
\* The tool was installed with these requirements when the call began.
InstalledWith(c) ==
    /\ c.receipts0[c.name] # Missing
    /\ c.envs0[c.name] # Missing
    /\ c.requirements = MapSeq(FromPep508, c.receipts0[c.name].requirements)
\* The targets the call's entry points are published at.
Targets(c) == {c.target_entry_points[k][3] : k \in 1..Len(c.target_entry_points)}
AllPublished(c) ==
    \A k \in 1..Len(c.target_entry_points) :
        bin[c.target_entry_points[k][3]] = Installed(c.target_entry_points[k][2])
\* Outcomes that are a failure of a collaborator or of the file system.
Faults ==
    {"InterpreterError", "ResolveFromError", "ResolveWithError", "ResolutionError",
     "CreateError", "SyncError", "EnvironmentError", "ExpectedRequirement",
     "CreateDirError", "RemoveError", "PublishError", "ReceiptError", "Interrupted"}

\* C1 (as stated): a second install of an installed tool with identical
\* requirements and no force, reinstall or upgrade is a no-op that ends
\* "already installed" (read: unless a collaborator fails).
C1_Original ==
    \A p \in Procs :
        LET c == calls[p] IN
        (Done(p) /\ Resolved(c) /\ InstalledWith(c) /\ NoFlags(c)
         /\ c.outcome \notin Faults)
            => /\ c.outcome = "AlreadyInstalled"
               /\ DiskUnchanged(c)
               /\ c.steps = {}

\* C1 (amended): the same, when the call requests no interpreter or one the
\* tool's environment satisfies: then the call changes nothing on disk, runs
\* no sync, create, publish or receipt step, and returns Ok(Failure).
C1_AlreadyInstalled ==
    \A p \in Procs :
        LET c == calls[p] IN
        (/\ Done(p) /\ Resolved(c) /\ InstalledWith(c) /\ NoFlags(c)
         /\ (c.python = None \/ Satisfied(c.python, c.envs0[c.name].interpreter)))
            => /\ c.outcome = "AlreadyInstalled"
               /\ ExitOf(c.outcome) = <<"Ok", "Failure">>
               /\ DiskUnchanged(c)
               /\ c.steps = {}

C1_Witness ==
    \E p \in Procs :
        LET c == calls[p] IN
        /\ Done(p) /\ Resolved(c) /\ InstalledWith(c) /\ NoFlags(c)
        /\ c.python # None
        /\ c.outcome = "AlreadyInstalled"

\* The auxiliary requirements of the call differ from those of the receipt
\* the call found.
AuxiliariesChanged(c) ==
    /\ c.receipts0[c.name] # Missing
    /\ LET receipt == MapSeq(FromPep508, c.receipts0[c.name].requirements)
       IN /\ Head(receipt) = Head(c.requirements)
          /\ Tail(receipt) # Tail(c.requirements)

\* C2: when the auxiliary requirements differ from the receipt's, in content
\* or in order, the call does not end "already installed"; it updates the
\* environment or enters the create path, where sync runs once resolution and
\* creation have succeeded; and on success the receipt holds the candidate
\* sequence, position by position.
C2_ChangedAuxiliaries ==
    \A p \in Procs :
        LET c == calls[p] IN
        (Done(p) /\ Resolved(c) /\ AuxiliariesChanged(c))
            => /\ c.outcome # "AlreadyInstalled"
               /\ c.steps \cap {"update", "resolve"} # {}
               /\ c.outcome \notin {"ResolutionError", "CreateError"}
                      => c.steps \cap {"update", "sync"} # {}
               /\ c.outcome = "Success"
                      => /\ Len(receipts[c.name].requirements) = Len(c.requirements)
                         /\ \A k \in 1..Len(c.requirements) :
                                FromPep508(receipts[c.name].requirements[k])
                                    = c.requirements[k]

\* The changed list is the receipt's in another order.
C2_Witness ==
    \E p \in Procs :
        LET c == calls[p] IN
        /\ Done(p) /\ Resolved(c) /\ AuxiliariesChanged(c)
        /\ SameRequirementsAsSets(c.requirements, c.receipts0[c.name])
        /\ c.outcome = "Success"
        /\ "update" \in c.steps

\* The targets a receipt records.
Recorded(tool_receipt) ==
    IF tool_receipt = Missing THEN {}
    ELSE {tool_receipt.entrypoints[k][2] : k \in 1..Len(tool_receipt.entrypoints)}

\* C3 (as stated): a target that exists and that the tool's prior receipt
\* does not record makes an install without force fail with
\* EntryPointConflict, and the file is left as it was (read: unless a
\* collaborator or a file-system call fails).
C3_Original ==
    \A p \in Procs :
        LET c == calls[p] IN
        (Done(p) /\ Resolved(c) /\ ~c.force /\ c.outcome \notin Faults)
            => \A f \in c.existing \ Recorded(c.receipts0[c.name]) :
                   /\ c.outcome = "EntryPointConflict"
                   /\ bin[f] = c.bin0[f]

\* C3 (amended): when the tool had no receipt before the call, a target that
\* exists makes an install without force fail with EntryPointConflict, and no
\* file of the executable directory is removed or written.
C3_Conflict ==
    \A p \in Procs :
        LET c == calls[p] IN
        (Done(p) /\ Resolved(c) /\ ~c.force /\ c.receipts0[c.name] = Missing
         /\ c.existing # {})
            => /\ c.outcome = "EntryPointConflict"
               /\ bin = c.bin0
               /\ c.steps \cap {"remove_file", "publish", "receipt"} = {}

C3_Witness ==
    \E p \in Procs :
        LET c == calls[p] IN
        /\ Done(p) /\ Resolved(c) /\ ~c.force /\ c.receipts0[c.name] = Missing
        /\ c.settings.reinstall
        /\ \E f \in c.existing : c.bin0[f] = Foreign /\ bin[f] = Foreign
        /\ c.outcome = "EntryPointConflict"

\* C4: with force, when a target exists, the call removes the existing file,
\* publishes every entry point, writes the receipt and returns Ok(Success),
\* unless a collaborator or a file-system call fails; with or without a prior
\* receipt.
C4_Force ==
    \A p \in Procs :
        LET c == calls[p] IN
        (Done(p) /\ Resolved(c) /\ c.force /\ c.existing # {}
         /\ c.outcome \notin Faults)
            => /\ c.outcome = "Success"
               /\ ExitOf(c.outcome) = <<"Ok", "Success">>
               /\ "remove_file" \in c.steps
               /\ AllPublished(c)
               /\ receipts[c.name] =
                      NewTool(c.requirements, c.python, c.target_entry_points)

C4_Witness ==
    \E p \in Procs :
        LET c == calls[p] IN
        /\ Done(p) /\ Resolved(c) /\ c.force
        /\ c.receipts0[c.name] = Missing
        /\ \E f \in c.existing : c.bin0[f] = Foreign /\ bin[f] # Foreign
        /\ c.outcome = "Success"

\* Discovery ran and found no entry point.
NoneDiscovered(c) == "discover" \in c.steps /\ c.target_entry_points = <<>>

\* C5: when discovery finds no entry point in an environment this call
\* created, the call fails with NoEntryPoints, the environment is gone when
\* it returns, and the receipt store is as the call found it.
C5_Rollback ==
    \A p \in Procs :
        LET c == calls[p] IN
        (Done(p) /\ Resolved(c) /\ NoneDiscovered(c) /\ "create" \in c.steps)
            => /\ c.outcome = "NoEntryPoints"
               /\ envs[c.name] = Missing
               /\ receipts = c.receipts0
               /\ "receipt" \notin c.steps

C5_Witness ==
    \E p \in Procs :
        LET c == calls[p] IN
        /\ Done(p) /\ Resolved(c) /\ NoneDiscovered(c) /\ "create" \in c.steps
        /\ "sync" \in c.steps
        /\ c.outcome = "NoEntryPoints"

\* C6 (as stated): when discovery finds no entry point in an environment that
\* existed before the call and was updated in place, the call fails with
\* NoEntryPoints and the environment still exists.
C6_Retained ==
    \A p \in Procs :
        LET c == calls[p] IN
        (Done(p) /\ Resolved(c) /\ NoneDiscovered(c) /\ "update" \in c.steps)
            => /\ c.outcome = "NoEntryPoints"
               /\ envs[c.name] # Missing

\* The files of the executable directory that are entry points of a tool.
Published(t) ==
    {f \in FileNames : bin[f].kind \in {"link", "copy"} /\ bin[f].source[1] = t}

\* C7 (as stated): after every completed call, a tool has a receipt exactly
\* when it has an environment and at least one entry point published.
C7_ReceiptIff ==
    \A p \in Procs :
        (Done(p) /\ calls[p].outcome # "Interrupted")
            => \A t \in Tools :
                   receipts[t] # Missing
                       <=> (envs[t] # Missing /\ Published(t) # {})

\* C8: the receipt is written only after every entry point of the call is
\* published; a call whose publish step fails writes no receipt.
C8_CommitPoint ==
    \A p \in Procs :
        LET c == calls[p] IN
        /\ (c.pc # "idle" /\ receipts # c.receipts0) => "receipt" \in c.steps
        /\ (c.pc # "idle" /\ "receipt" \in c.steps)
               => /\ c.outcome = "Success"
                  /\ c.target_entry_points # <<>>
                  /\ AllPublished(c)
                  /\ "publish" \in c.steps
        /\ (Done(p) /\ c.outcome = "PublishError")
               => receipts = c.receipts0 /\ "receipt" \notin c.steps

C8_Witness ==
    \E p \in Procs :
        LET c == calls[p] IN
        /\ Done(p) /\ c.outcome = "PublishError"
        /\ "publish" \in c.steps
        /\ Len(c.target_entry_points) = 2

\* C9: a call that fails with NameConflict, with a failure to resolve the
\* primary or the auxiliary requirements, or with a failure of the full
\* resolution leaves receipts, environments and executable directory as it
\* found them; and no environment is created before the resolution succeeded.
C9_ResolutionFailure ==
    \A p \in Procs :
        LET c == calls[p] IN
        /\ (Done(p) /\ c.outcome \in {"NameConflict", "ResolveFromError",
                                     "ResolveWithError", "ResolutionError"})
               => /\ DiskUnchanged(c)
                  /\ c.steps \subseteq {"resolve"}
        /\ (c.pc # "idle" /\ "create" \in c.steps)
               => "resolve" \in c.steps /\ c.outcome # "ResolutionError"

\* The full resolution fails for a tool that has a receipt and an environment
\* the requested interpreter rules out.
C9_Witness ==
    \E p \in Procs :
        LET c == calls[p] IN
        /\ Done(p) /\ c.outcome = "ResolutionError"
        /\ c.receipts0[c.name] # Missing /\ c.envs0[c.name] # Missing

\* C10 (as stated): an interrupted install can be run again: where no target
\* existed before the first attempt, the same call without force succeeds
\* unless a collaborator fails or the package has no entry point, and leaves
\* the receipt, the environment and the entry points of a complete install.
C10_RetrySucceeds ==
    \A p \in Procs :
        LET c == calls[p] IN
        (/\ Done(p) /\ c.retry /\ Resolved(c) /\ ~c.force
         /\ "discover" \in c.steps
         /\ \A f \in Targets(c) : c.bin00[f] = Absent
         /\ c.outcome \notin Faults \cup {"NoEntryPoints"})
            => /\ c.outcome = "Success"
               /\ envs[c.name] # Missing
               /\ AllPublished(c)
               /\ receipts[c.name] =
                      NewTool(c.requirements, c.python, c.target_entry_points)

\* The call has computed its targets.
Discovered(c) == c.pc # "idle" /\ "discover" \in c.steps

\* C11: the targets of a call are those of the entry points it discovered,
\* each once, in ascending order of (name, source_path, target_path); each
\* target is the file name of the source, or the entry-point name when the
\* source has none; the conflict check names targets in that order and the
\* "Installed:" line lists the names in that order; and two calls that
\* discovered the same set of entry points, in whatever order, have the same
\* sequence of targets and report the same list.
C11_Order ==
    /\ \A p \in Procs :
           LET c == calls[p]
               teps == c.target_entry_points
           IN Discovered(c) =>
                  /\ \A k \in 1..(Len(teps) - 1) : TripleLess(teps[k], teps[k + 1])
                  /\ {<<teps[k][1], teps[k][2]>> : k \in 1..Len(teps)} = c.discovered
                  /\ \A k \in 1..Len(teps) :
                         teps[k][3] = (IF teps[k][2][Len(teps[k][2])] = DotDot
                                       THEN teps[k][1]
                                       ELSE teps[k][2][Len(teps[k][2])])
                  /\ c.outcome \in {"Success", "ReceiptError"}
                         => c.reported = [k \in 1..Len(teps) |-> teps[k][1]]
                  /\ \A m, n \in 1..Len(c.conflicts) :
                         m < n => \E k, l \in 1..Len(teps) :
                                     /\ k < l
                                     /\ teps[k][3] = c.conflicts[m]
                                     /\ teps[l][3] = c.conflicts[n]
    /\ \A p, q \in Procs :
           (/\ Discovered(calls[p]) /\ Discovered(calls[q])
            /\ calls[p].name = calls[q].name
            /\ calls[p].discovered = calls[q].discovered)
               => /\ calls[p].target_entry_points = calls[q].target_entry_points
                  /\ (calls[p].outcome = "Success" /\ calls[q].outcome = "Success")
                         => calls[p].reported = calls[q].reported

\* Two calls published the same two entry points of ruff, one of them a
\* source without a file name.
C11_Witness ==
    /\ calls[1].pc = "done" /\ calls[2].pc = "done"
    /\ calls[1].outcome = "Success" /\ calls[2].outcome = "Success"
    /\ calls[1].name = "ruff" /\ calls[2].name = "ruff"
    /\ calls[1].discovered = calls[2].discovered
    /\ Cardinality(calls[1].discovered) = 2
    /\ Len(calls[2].reported) = 2

\* C12 (as stated): when a call fails with EntryPointConflict, an environment
\* that existed before the call and was updated in place, not created by the
\* call, still exists when the call returns.
C12_Retained ==
    \A p \in Procs :
        LET c == calls[p] IN
        (/\ Done(p) /\ Resolved(c) /\ c.outcome = "EntryPointConflict"
         /\ c.envs0[c.name] # Missing /\ "create" \notin c.steps)
            => envs[c.name] # Missing

\* C13: when the tool had a receipt before the call, the call never fails
\* with EntryPointConflict: without force too, every target that exists,
\* recorded in that receipt or not, is removed before the first entry point
\* is published, and is published again if nothing else fails.  When the tool
\* had no receipt and force is unset, the call removes no file and leaves
\* every existing target as it was.
C13_ReceiptSignal ==
    \A p \in Procs :
        LET c == calls[p] IN
        /\ (c.pc # "idle" /\ Resolved(c) /\ c.receipts0[c.name] # Missing)
               => /\ c.outcome # "EntryPointConflict"
                  /\ "remove_environment" \in c.steps => c.outcome = "NoEntryPoints"
                  /\ (c.pc = "publish" /\ c.i = 1)
                         => /\ \A f \in Targets(c) : ~Exists(bin, envs, f)
                            /\ c.existing # {} => "remove_file" \in c.steps
                  /\ (Done(p) /\ "discover" \in c.steps
                      /\ c.outcome \notin Faults \cup {"NoEntryPoints"})
                         => /\ c.outcome = "Success"
                            /\ AllPublished(c)
        /\ (c.pc # "idle" /\ Resolved(c) /\ c.receipts0[c.name] = Missing /\ ~c.force)
               => /\ "remove_file" \notin c.steps
                  /\ \A f \in c.existing : bin[f] = c.bin0[f]

\* Without force, a call for a tool with a receipt replaced a file that the
\* receipt did not record and that no install had put there.
C13_Witness ==
    \E p \in Procs :
        LET c == calls[p] IN
        /\ Done(p) /\ Resolved(c) /\ c.receipts0[c.name] # Missing /\ ~c.force
        /\ c.outcome = "Success"
        /\ \E f \in c.existing \ Recorded(c.receipts0[c.name]) :
               c.bin0[f] = Foreign /\ bin[f] # Foreign

\* C14 (as stated): the EntryPointConflict error names exactly the targets
\* that existed when the conflict check began.
C14_NamesAll ==
    \A p \in Procs :
        LET c == calls[p] IN
        (Done(p) /\ c.outcome = "EntryPointConflict")
            => {c.conflicts[k] : k \in 1..Len(c.conflicts)} = c.existing

\* The tool had an environment when the call began, and the call requests an
\* interpreter that the environment's own does not satisfy.
Unsatisfied(c) ==
    /\ c.envs0[c.name] # Missing
    /\ c.python # None /\ ~Satisfied(c.python, c.envs0[c.name].interpreter)

\* C15: a call that requests an interpreter the tool's environment does not
\* satisfy never ends "already installed", never updates that environment in
\* place, and resolves first, creates the environment only after the
\* resolution succeeded and syncs only after the creation; a call that
\* requests no interpreter uses the existing environment: it ends "already
\* installed" or updates it in place, and neither resolves nor creates.
C15_Ineligible ==
    \A p \in Procs :
        LET c == calls[p] IN
        /\ (c.pc # "idle" /\ Resolved(c) /\ Unsatisfied(c))
               => /\ ~c.existing_environment
                  /\ c.outcome # "AlreadyInstalled"
                  /\ "update" \notin c.steps
                  /\ c.pc \notin {"entry", "build"} => "resolve" \in c.steps
                  /\ "create" \in c.steps
                         => "resolve" \in c.steps /\ c.outcome # "ResolutionError"
                  /\ "sync" \in c.steps
                         => "create" \in c.steps /\ c.outcome # "CreateError"
                  /\ "discover" \in c.steps => "sync" \in c.steps
        /\ (c.pc # "idle" /\ Resolved(c) /\ c.envs0[c.name] # Missing /\ c.python = None)
               => /\ c.existing_environment
                  /\ c.steps \cap {"resolve", "create", "sync"} = {}
                  /\ c.pc \notin {"entry", "build"}
                         => c.outcome = "AlreadyInstalled" \/ "update" \in c.steps

\* The identical install of an installed tool, but for an interpreter that
\* its environment does not satisfy, went down the create path to the end.
C15_Witness ==
    \E p \in Procs :
        LET c == calls[p] IN
        /\ Done(p) /\ Resolved(c) /\ Unsatisfied(c)
        /\ InstalledWith(c) /\ NoFlags(c)
        /\ c.outcome = "Success"
        /\ {"resolve", "create", "sync"} \subseteq c.steps
        /\ envs[c.name].interpreter = c.python

\* What the publish loop of a call leaves at a target: the source of the last
\* of its entry points with that target.
PublishedAt(c, f) ==
    LET teps == c.target_entry_points
        ks == {k \in 1..Len(teps) : teps[k][3] = f}
        last == CHOOSE k \in ks : \A j \in ks : j <= k
    IN Installed(teps[last][2])

\* The call ended as a complete install of what it discovered.
Complete(c) ==
    /\ c.outcome = "Success"
    /\ receipts[c.name] = NewTool(c.requirements, c.python, c.target_entry_points)
    /\ envs[c.name] = [interpreter |-> c.interpreter, installed |-> TRUE,
                       entrypoints |-> c.discovered]
    /\ \A f \in Targets(c) : bin[f] = PublishedAt(c, f)

\* Run alone, the call would meet no conflict.
NoConflictAlone(c) == c.force \/ \A f \in Targets(c) : c.bin0[f] = Absent

\* C16: in every interleaving of two calls for different tools, no call
\* fails because the executable directory exists already; and when the
\* targets of the two calls are disjoint, each call that would succeed alone
\* (no collaborator or file-system failure, some entry point, no conflict
\* with what was there before) succeeds and leaves the receipt, the
\* environment and the entry points of its tool as it would alone.
C16_DifferentTools ==
    /\ \A p \in Procs : calls[p].pc # "idle" => calls[p].outcome # "DirectoryExists"
    /\ (/\ Done(1) /\ Done(2)
        /\ calls[1].name # calls[2].name
        /\ \A p \in Procs :
               /\ "discover" \in calls[p].steps
               /\ calls[p].outcome \notin Faults \cup {"NoEntryPoints"}
               /\ NoConflictAlone(calls[p])
        /\ Targets(calls[1]) \cap Targets(calls[2]) = {})
           => \A p \in Procs : Complete(calls[p])

\* Both calls began when the executable directory did not exist, and both
\* installed their tool.
C16_Witness ==
    /\ Done(1) /\ Done(2)
    /\ calls[1].name = "black" /\ calls[2].name = "ruff"
    /\ ~calls[1].exeDir0 /\ ~calls[2].exeDir0
    /\ Targets(calls[1]) # {} /\ Targets(calls[2]) # {}
    /\ Targets(calls[1]) \cap Targets(calls[2]) = {}
    /\ Complete(calls[1]) /\ Complete(calls[2])

\* The call that is running, or the last that ran, of two consecutive calls.
Current == IF calls[2].pc # "idle" THEN 2 ELSE 1

\* C17: at every point of a call and on every exit, the receipt and the
\* environment of every tool other than the call's own are as the call found
\* them, and so is every file of the executable directory that is not one of
\* the targets the call computed (all of them, before it has computed any).
C17_Frame ==
    LET c == calls[Current] IN
    c.pc # "idle"
        => /\ \A t \in Tools \ {c.name} :
                  receipts[t] = c.receipts0[t] /\ envs[t] = c.envs0[t]
           /\ \A f \in FileNames \ Targets(c) : bin[f] = c.bin0[f]
           /\ exeDir \/ ~c.exeDir0

\* A forced install of black replaced a file at its target, next to an
\* installed ruff whose receipt, environment and entry point are as before.
C17_Witness ==
    LET c == calls[2] IN
    /\ c.pc = "done" /\ c.outcome = "Success" /\ c.name = "black"
    /\ "remove_file" \in c.steps
    /\ receipts["ruff"] # Missing /\ envs["ruff"] # Missing
    /\ \E f \in FileNames \ Targets(c) :
           bin[f].kind \in {"link", "copy"} /\ bin[f].source[1] = "ruff"

\* C18 (as stated): once two concurrent calls for the same tool have both
\* returned, a receipt of the tool exists only if its environment exists and
\* every entry point the receipt records is published (read: when no
\* collaborator and no file-system call failed and the package has entry
\* points in both calls).
C18_ReceiptBacked ==
    (/\ Done(1) /\ Done(2)
     /\ Resolved(calls[1]) /\ Resolved(calls[2])
     /\ calls[1].name = calls[2].name
     /\ calls[1].outcome \notin Faults \cup {"NoEntryPoints"}
     /\ calls[2].outcome \notin Faults \cup {"NoEntryPoints"})
        => LET t == calls[1].name IN
           receipts[t] # Missing
               => /\ envs[t] # Missing
                  /\ Recorded(receipts[t]) \subseteq Published(t)

\* C19 (as stated): after a successful call, the receipt of the tool records
\* exactly the targets the call published, and every file of the executable
\* directory that an install of the tool published is recorded in it.
C19_Accounted ==
    \A p \in Procs :
        LET c == calls[p] IN
        (Done(p) /\ c.outcome = "Success")
            => /\ Recorded(receipts[c.name]) = Targets(c)
               /\ Published(c.name) \subseteq Recorded(receipts[c.name])

====
